---- MODULE Spec2Model ----
(***************************************************************************)
(* Verification model of mmwave-cli: the Lua key/value extractor and the   *)
(* physical-unit converter (lua_loader.py), the descriptor export and the  *)
(* capture workflow with its background transfers (mimo.py).               *)
(***************************************************************************)
EXTENDS Integers, Sequences, FiniteSets, TLC

VARIABLES
    \* convert_physical_to_lsb and the inverse formulas of export_config_to_json
    convKey,        \* the key of params that is converted
    convArg,        \* params[convKey], a float
    p,              \* the dictionary convert_physical_to_lsb returns
    physical,       \* the physical value export_config_to_json derives from p
    convPc,
    \* parse_lua_assignments
    lines,          \* the lines of the file
    lineNo,         \* the number of lines the loop has consumed
    params,
    parsePc,
    \* export_config_to_json
    config,
    filename,
    json_output,
    fs,             \* the descriptor files, by name
    exportPc,
    \* main, run_capture and the transfer threads
    pc,
    mode,
    no_transfer,
    cycle,          \* the number of calls of run_capture so far
    configured,     \* mmw_set_config has returned 0
    initialised,    \* mmw_init has returned 0
    armed,
    frameStarted,
    stopAttempted,
    dearmAttempted,
    hwFailed,       \* a hardware call has returned a non-zero status
    interrupted,    \* a KeyboardInterrupt has been raised
    exitStatus,
    threads         \* the transfer thread of each cycle

convVars == <<convKey, convArg, p, physical, convPc>>

parseVars == <<lines, lineNo, params, parsePc>>

exportVars == <<config, filename, json_output, fs, exportPc>>

mainVars == <<pc, mode, no_transfer, cycle, configured, initialised, armed, frameStarted, stopAttempted,
              dearmAttempted, hwFailed, interrupted, exitStatus, threads>>

vars == <<convVars, parseVars, exportVars, mainVars>>

(***************************************************************************)
(* Arbitrary-precision naturals: little-endian sequences of limbs, no      *)
(* leading zero limb, <<>> is zero.  They carry the 53-bit significands of *)
(* Python's float (IEEE-754 binary64), which do not fit TLC's integers.    *)
(***************************************************************************)
Base == 32768

LimbBits == 15

\* The element of a singleton.  A computation in stages is written as nested
\* singletons, {g(x) : x \in {f(a)}}: a bound variable is evaluated when it is
\* bound, a definition only where it is used.
The(S) == CHOOSE x \in S : TRUE

SetMax(S) == CHOOSE x \in S : \A y \in S : y <= x

Max2(x, y) == IF x > y THEN x ELSE y

Min2(x, y) == IF x < y THEN x ELSE y

Limb(a, i) == IF i <= Len(a) THEN a[i] ELSE 0

BigNorm(a) ==
    LET nz == {i \in 1..Len(a) : a[i] # 0}
    IN  IF nz = {} THEN <<>> ELSE SubSeq(a, 1, SetMax(nz))

\* a natural below 2^31 as limbs
BigFromInt(n) ==
    BigNorm(<<n % Base, (n \div Base) % Base, n \div (Base * Base)>>)

\* the value of a number of at most three limbs that is below 2^31
BigToInt(a) == Limb(a, 1) + Base * (Limb(a, 2) + Base * Limb(a, 3))

BigCmp(a, b) ==
    LET df == {i \in 1..Max2(Len(a), Len(b)) : Limb(a, i) # Limb(b, i)}
    IN  IF df = {} THEN 0
        ELSE IF Limb(a, SetMax(df)) > Limb(b, SetMax(df)) THEN 1 ELSE -1

\* the carry into limb i is 1 iff some lower limb generates a carry and every
\* limb between propagates it
BigAdd(a, b) ==
    LET n        == Max2(Len(a), Len(b))
        s(i)     == Limb(a, i) + Limb(b, i)
        carry(i) == IF \E j \in 1..(i - 1) :
                          /\ s(j) >= Base
                          /\ \A k \in (j + 1)..(i - 1) : s(k) = Base - 1
                    THEN 1 ELSE 0
    IN  BigNorm([i \in 1..(n + 1) |-> (s(i) + carry(i)) % Base])

\* a - b for a >= b, the borrows found like the carries of BigAdd
BigSub(a, b) ==
    LET borrow(i) == IF \E j \in 1..(i - 1) :
                           /\ Limb(a, j) < Limb(b, j)
                           /\ \A k \in (j + 1)..(i - 1) : Limb(a, k) = Limb(b, k)
                     THEN 1 ELSE 0
    IN  BigNorm([i \in 1..Len(a) |-> (a[i] - Limb(b, i) - borrow(i) + Base) % Base])

\* a * k for a natural k <= Base: limb i of the product is the low half of
\* a[i] * k plus the high half of a[i-1] * k plus a carry found as in BigAdd
BigMulSmall(a, k) ==
    LET prod(i)  == IF 1 <= i /\ i <= Len(a) THEN a[i] * k ELSE 0
        s(i)     == (prod(i) % Base) + (prod(i - 1) \div Base)
        carry(i) == IF \E j \in 1..(i - 1) :
                          /\ s(j) >= Base
                          /\ \A l \in (j + 1)..(i - 1) : s(l) = Base - 1
                    THEN 1 ELSE 0
    IN  BigNorm([i \in 1..(Len(a) + 2) |-> (s(i) + carry(i)) % Base])

RECURSIVE BigMul(_, _)
BigMul(a, b) ==
    IF b = <<>> \/ a = <<>> THEN <<>>
    ELSE The({BigAdd(t[1], <<0>> \o t[2]) :
                 t \in {<<BigMulSmall(a, b[1]), BigMul(a, Tail(b))>>}})

BigShl(a, k) ==
    IF a = <<>> THEN <<>>
    ELSE The({[i \in 1..(k \div LimbBits) |-> 0] \o BigMulSmall(a, f) :
                 f \in {2 ^ (k % LimbBits)}})

\* a \div 2^k for k < LimbBits
BigShrSmall(a, k) ==
    BigNorm([i \in 1..Len(a) |->
               (a[i] \div (2 ^ k)) + (Limb(a, i + 1) % (2 ^ k)) * (2 ^ (LimbBits - k))])

\* the number of bits of a limb
IntBitLen(n) ==
    IF n = 0 THEN 0 ELSE CHOOSE b \in 1..LimbBits : 2 ^ (b - 1) <= n /\ n < 2 ^ b

BigBitLen(a) ==
    IF a = <<>> THEN 0 ELSE LimbBits * (Len(a) - 1) + IntBitLen(a[Len(a)])

BigIsOdd(a) == a # <<>> /\ a[1] % 2 = 1

\* One quotient limb of r1 \div d, paired with its product with d, for
\* r1 < d * Base and a divisor d whose top limb is at least Base / 2: the
\* estimate from the leading limbs is at most two above the quotient limb
\* (Knuth, TAOCP 4.3.1, Theorem B), and QuotFix lowers it by one when it is
\* above.
QuotEst(r1, d) ==
    LET m   == Len(d)
        est == (Limb(r1, m + 1) * Base + Limb(r1, m)) \div d[m]
    IN  The({<<q0, BigMulSmall(d, q0)>> : q0 \in {Min2(est, Base - 1)}})

QuotFix(r1, d, kp) ==
    IF BigCmp(kp[2], r1) <= 0 THEN kp ELSE <<kp[1] - 1, BigSub(kp[2], d)>>

\* one step of the long division: the limb n[i] is brought down to the
\* remainder of the limbs above it
DivStep(n, d, i, prev) ==
    {<<BigNorm(<<v[2][1]>> \o prev[1]), BigSub(v[1], v[2][2])>> :
        v \in {<<u[1], QuotFix(u[1], d, u[2])>> :
            u \in {<<t[1], QuotFix(t[1], d, t[2])>> :
                t \in {<<r1, QuotEst(r1, d)>> :
                    r1 \in {BigNorm(<<n[i]>> \o prev[2])}}}}}

\* long division of the limbs i..Len(n) of n by d: <<quotient, remainder>>;
\* the top Len(d) - 1 limbs of n are below d and start the remainder
RECURSIVE BigDivModTop(_, _, _)
BigDivModTop(n, d, i) ==
    IF i > Len(n) - Len(d) + 1
    THEN {<< <<>>, BigNorm(SubSeq(n, i, Len(n))) >>}
    ELSE UNION {DivStep(n, d, i, prev) : prev \in BigDivModTop(n, d, i + 1)}

\* <<n \div d, n % d>> for d > 0; both are scaled so that d's top limb is at
\* least Base / 2, which leaves the quotient unchanged
BigDivMod(n, d) ==
    The({<< x[1][1], BigShrSmall(x[1][2], x[2]) >> :
           x \in UNION {{<<qr, nd[3]>> : qr \in BigDivModTop(nd[1], nd[2], 1)} :
              nd \in {<<BigMulSmall(n, 2 ^ sh), BigMulSmall(d, 2 ^ sh), sh>> :
                 sh \in {LimbBits - IntBitLen(d[Len(d)])}}}})

(***************************************************************************)
(* Python float: IEEE-754 binary64, value sgn * m * 2^e with m = 0 or      *)
(* 2^52 <= m < 2^53.  Every operation rounds its exact result to nearest,  *)
(* ties to even, as CPython's float arithmetic does.  Subnormals and       *)
(* overflow are outside the ranges the model draws its inputs from.        *)
(***************************************************************************)
MantBits == 53

FZero == [sgn |-> 1, m |-> <<>>, e |-> 0]

ScaledDen(d, e) == IF e >= 0 THEN BigShl(d, e) ELSE d

ScaledNum(n, e) == IF e >= 0 THEN n ELSE BigShl(n, -e)

\* the quotient q with remainder r of a division by den, rounded to an
\* integer, ties to even, as a significand with exponent e
RoundQuot(q, r, den, e) ==
    The({IF BigBitLen(q1) > MantBits
         THEN [m |-> BigShl(<<1>>, MantBits - 1), e |-> e + 1]
         ELSE [m |-> q1, e |-> e] :
            q1 \in {IF c > 0 \/ (c = 0 /\ BigIsOdd(q)) THEN BigAdd(q, <<1>>) ELSE q :
                c \in {BigCmp(r2, den) : r2 \in {BigMulSmall(r, 2)}}}})

\* the exponent e of the float nearest to n / d: 2^52 <= n / (d * 2^e) < 2^53.
\* With t the difference of the bit lengths, n / d lies between 2^(t-1) and 2^(t+1).
FloatExp(n, d) ==
    The({IF BigCmp(x[1], x[2]) >= 0 THEN x[3] - (MantBits - 1) ELSE x[3] - MantBits :
            x \in {<<ScaledNum(n, t), ScaledDen(d, t), t>> :
                t \in {BigBitLen(n) - BigBitLen(d)}}})

\* the binary64 nearest to n / d (n, d naturals, d > 0): significand, exponent
RoundRat(n, d) ==
    IF n = <<>> THEN [m |-> <<>>, e |-> 0]
    ELSE The({RoundQuot(t.qr[1], t.qr[2], t.den, t.e) :
            t \in {[e |-> u.e, den |-> u.den, qr |-> BigDivMod(u.num, u.den)] :
                u \in {[e |-> e, den |-> ScaledDen(d, e), num |-> ScaledNum(n, e)] :
                    e \in {FloatExp(n, d)}}}})

\* the float a decimal literal  sgn * mant / 10^scale  denotes
FromDecimal(sgn, mant, scale) ==
    The({[sgn |-> sgn, m |-> r.m, e |-> r.e] :
            r \in {RoundRat(nd[1], nd[2]) :
                nd \in {<<BigFromInt(mant), BigFromInt(10 ^ scale)>>}}})

\* float(n) for a Python int n
FromInt(n) ==
    IF n < 0 THEN FromDecimal(-1, -n, 0) ELSE FromDecimal(1, n, 0)

FMul(a, b) ==
    IF a.m = <<>> \/ b.m = <<>> THEN [FZero EXCEPT !.sgn = a.sgn * b.sgn]
    ELSE The({[sgn |-> a.sgn * b.sgn, m |-> r.m, e |-> r.e + a.e + b.e] :
            r \in {RoundRat(t, <<1>>) : t \in {BigMul(a.m, b.m)}}})

\* b is never zero: every divisor in the code is a non-zero constant
FDiv(a, b) ==
    IF a.m = <<>> THEN [FZero EXCEPT !.sgn = a.sgn * b.sgn]
    ELSE The({[sgn |-> a.sgn * b.sgn, m |-> r.m, e |-> r.e + a.e - b.e] :
            r \in {RoundRat(a.m, b.m)}})

\* int(x) for a float x: truncation toward zero
FTrunc(a) ==
    IF a.e >= 0
    THEN a.sgn * BigToInt(BigShl(a.m, a.e))
    ELSE The({a.sgn * BigToInt(qr[1]) :
            qr \in {BigDivMod(a.m, d) : d \in {BigShl(<<1>>, -a.e)}}})

\* a.m * 2^(a.e - e) for e <= a.e: the magnitude of a in units of 2^e
FScaled(a, e) == BigShl(a.m, a.e - e)

\* |a - b| in units of 2^e, exactly
FAbsDiff(a, b, e) ==
    The({IF a.sgn # b.sgn THEN BigAdd(t[1], t[2])
         ELSE IF BigCmp(t[1], t[2]) >= 0 THEN BigSub(t[1], t[2])
         ELSE BigSub(t[2], t[1]) :
            t \in {<<FScaled(a, e), FScaled(b, e)>>}})

\* |a - b| < |c| over the reals, for floats a, b, c
FDiffLess(a, b, c) ==
    The({BigCmp(t[1], t[2]) < 0 :
            t \in {<<FAbsDiff(a, b, e), FScaled(c, e)>> :
                e \in {Min2(a.e, Min2(b.e, c.e))}}})

(***************************************************************************)
(* The conversions between physical units and LSB counts.                  *)
(***************************************************************************)
\* the float constants of the formulas
F53_6441803 == FromDecimal(1, 536441803, 7)

F48_2797623 == FromDecimal(1, 482797623, 7)

F1e9 == FromInt(1000000000)

F1000 == FromInt(1000)

F0_01 == FromDecimal(1, 1, 2)

F1e6 == FromInt(1000000)

F5_0 == FromInt(5)

\* (x * a) / b, each operation rounded
MulDiv(x, a, b) == The({FDiv(t, b) : t \in {FMul(x, a)}})

\* the keys of params that have an inverse formula, and the field of p each
\* is converted to
ConvKeys == {"start_freq", "slope", "idle_time", "adc_start_time",
             "ramp_end_time", "Inter_Frame_Interval"}

FieldOf(key) ==
    CASE key = "start_freq"           -> "startFreqConst"
      [] key = "slope"                -> "freqSlopeConst"
      [] key = "idle_time"            -> "idleTimeConst"
      [] key = "adc_start_time"       -> "adcStartTimeConst"
      [] key = "ramp_end_time"        -> "rampEndTime"
      [] key = "Inter_Frame_Interval" -> "framePeriodicity"

\* convert_physical_to_lsb: the LSB count of the float v given for key
ToLsb(key, v) ==
    The({FTrunc(q) : q \in {
        CASE key = "start_freq"           -> MulDiv(v, F1e9, F53_6441803)
          [] key = "slope"                -> MulDiv(v, F1000, F48_2797623)
          [] key = "idle_time"            -> FDiv(v, F0_01)
          [] key = "adc_start_time"       -> FDiv(v, F0_01)
          [] key = "ramp_end_time"        -> FDiv(v, F0_01)
          [] key = "Inter_Frame_Interval" -> MulDiv(v, F1e6, F5_0)}})

\* export_config_to_json: the physical value of the LSB count n of a field
ToPhysical(field, n) ==
    The({CASE field = "startFreqConst"    -> MulDiv(x, F53_6441803, F1e9)
           [] field = "freqSlopeConst"    -> MulDiv(x, F48_2797623, F1000)
           [] field = "framePeriodicity"  -> MulDiv(x, F5_0, F1e6)
           [] field = "idleTimeConst"     -> FMul(x, F0_01)
           [] field = "adcStartTimeConst" -> FMul(x, F0_01)
           [] field = "rampEndTime"       -> FMul(x, F0_01)
           [] field = "txStartTime"       -> FMul(x, F0_01) :
            x \in {FromInt(n)}})

(***************************************************************************)
(* parse_lua_assignments.  A line is a sequence of characters without its  *)
(* newline; the lines the model draws are written over Alphabet.           *)
(***************************************************************************)
Alphabet == {"k", "7", "=", " ", "-", ","}

Letters == {"k"}

Digits == {"7"}

Space == {" "}

\* [^-\n]: the newline is not part of a line
NotDash == Alphabet \ {"-"}

\* the end of the longest run of characters of C that starts at s[i]; i - 1
\* when s[i] is not in C
Span(s, i, C) ==
    CHOOSE j \in (i - 1)..Max2(Len(s), i - 1) :
        /\ \A n \in i..j : s[n] \in C
        /\ j >= Len(s) \/ s[j + 1] \notin C

\* ASSIGN_RE.match(line): ^\s*([a-zA-Z_][a-zA-Z0-9_]*)\s*=\s*([^-\n]+)
\* The \s* after '=' is greedy and gives one character back when the value
\* group would be empty otherwise.  eq is the position of '='.
AssignMatch(line) ==
    LET a  == Span(line, 1, Space)
        b  == Span(line, a + 2, Letters \cup Digits)
        c  == Span(line, b + 1, Space)
        d  == Span(line, c + 2, Space)
        g  == IF Span(line, d + 1, NotDash) > d THEN d + 1 ELSE d
        ok == /\ a + 1 <= Len(line) /\ line[a + 1] \in Letters
              /\ c + 1 <= Len(line) /\ line[c + 1] = "="
              /\ g >= c + 2
    IN  IF ok
        THEN [matched |-> TRUE, group1 |-> SubSeq(line, a + 1, b),
              group2 |-> SubSeq(line, g, Span(line, g, NotDash)), eq |-> c + 1]
        ELSE [matched |-> FALSE, group1 |-> <<>>, group2 |-> <<>>, eq |-> 0]

\* str.strip()
Strip(s) ==
    LET ns == {i \in 1..Len(s) : s[i] \notin Space}
    IN  IF ns = {} THEN <<>>
        ELSE SubSeq(s, CHOOSE i \in ns : \A j \in ns : i <= j, SetMax(ns))

\* s.split('--')[0]
BeforeComment(s) ==
    LET cm == {i \in 1..(Len(s) - 1) : s[i] = "-" /\ s[i + 1] = "-"}
    IN  IF cm = {} THEN s
        ELSE SubSeq(s, 1, (CHOOSE i \in cm : \A j \in cm : i <= j) - 1)

\* s.rstrip(','): every trailing comma goes
RStripCommas(s) == SubSeq(s, 1, SetMax({0} \cup {i \in 1..Len(s) : s[i] # ","}))

\* The value of a run of decimal digits.  The alphabet has the one digit 7.
RECURSIVE DecValue(_)
DecValue(w) ==
    IF w = <<>> THEN 0 ELSE 10 * DecValue(SubSeq(w, 1, Len(w) - 1)) + 7

\* a maximal run of letters and digits as a token: a number, a name, or the
\* tokenizer's error for a number that runs into a letter
WordToken(w) ==
    IF \A i \in 1..Len(w) : w[i] \in Digits THEN [t |-> "num", v |-> DecValue(w)]
    ELSE IF w[1] \in Letters THEN [t |-> "name", v |-> 0]
    ELSE [t |-> "bad", v |-> 0]

\* the tokens of s from position i on
RECURSIVE Tokens(_, _)
Tokens(s, i) ==
    IF i > Len(s) THEN <<>>
    ELSE IF s[i] \in Space THEN Tokens(s, i + 1)
    ELSE IF s[i] \in Letters \cup Digits
         THEN <<WordToken(SubSeq(s, i, Span(s, i, Letters \cup Digits)))>>
              \o Tokens(s, Span(s, i, Letters \cup Digits) + 1)
    ELSE <<[t |-> s[i], v |-> 0]>> \o Tokens(s, i + 1)

NotLiteral == [ok |-> FALSE, tuple |-> FALSE, elems |-> <<>>]

\* a number with an optional sign: what literal_eval takes as a scalar
IsSigned(g) ==
    \/ Len(g) = 1 /\ g[1].t = "num"
    \/ Len(g) = 2 /\ g[1].t = "-" /\ g[2].t = "num"

SignedValue(g) == IF Len(g) = 1 THEN g[1].v ELSE 0 - g[2].v

\* ast.literal_eval on a text over Alphabet: a signed number is an int,
\* signed numbers separated by commas (one may trail) are a tuple, and
\* everything else raises (SyntaxError for what is no expression, ValueError
\* for names, comparisons and arithmetic).
LiteralEval(s) ==
    LET tk     == Tokens(s, 1)
        cp     == {i \in 1..Len(tk) : tk[i].t = ","}
        n      == Cardinality(cp)
        at(k)  == IF k = 0 THEN 0
                  ELSE IF k > n THEN Len(tk) + 1
                  ELSE CHOOSE i \in cp : Cardinality({j \in cp : j <= i}) = k
        grp(k) == SubSeq(tk, at(k - 1) + 1, at(k) - 1)
    IN  IF n = 0
        THEN IF IsSigned(tk)
             THEN [ok |-> TRUE, tuple |-> FALSE, elems |-> <<SignedValue(tk)>>]
             ELSE NotLiteral
        ELSE IF /\ \A k \in 1..n : IsSigned(grp(k))
                /\ grp(n + 1) = <<>> \/ IsSigned(grp(n + 1))
             THEN [ok |-> TRUE, tuple |-> TRUE,
                   elems |-> [k \in 1..(IF grp(n + 1) = <<>> THEN n ELSE n + 1)
                                 |-> SignedValue(grp(k))]]
             ELSE NotLiteral

\* lines 20-25: the text handed to literal_eval for a line that matched
ValueText(m) == RStripCommas(Strip(BeforeComment(Strip(m.group2))))

\* lines 16-33 for one line: whether it binds, and what
LineResult(line) ==
    LET m == AssignMatch(line)
        v == LiteralEval(ValueText(m))
    IN  IF m.matched /\ v.ok
        THEN [bound |-> TRUE, key |-> Strip(m.group1), val |-> v]
        ELSE [bound |-> FALSE, key |-> <<>>, val |-> NotLiteral]

\* a binding that keeps the first value of a key: params.setdefault(key, val_py)
BindFirst(ps, key, val) == ps @@ (key :> val)

\* params[key] = val_py
Bind(ps, key, val) == (key :> val) @@ ps

\* one iteration of "for line in f"
ParseLine ==
    /\ parsePc = "loop"
    /\ lineNo < Len(lines)
    /\ lineNo' = lineNo + 1
    /\ LET r == LineResult(lines[lineNo + 1])
       IN  params' = IF r.bound THEN Bind(params, r.key, r.val) ELSE params
    /\ UNCHANGED <<lines, parsePc>>
    /\ UNCHANGED <<convVars, exportVars, mainVars>>

\* return params
ParseReturn ==
    /\ parsePc = "loop"
    /\ lineNo = Len(lines)
    /\ parsePc' = "returned"
    /\ UNCHANGED <<lines, lineNo, params>>
    /\ UNCHANGED <<convVars, exportVars, mainVars>>

(***************************************************************************)
(* export_config_to_json.  A value of the document carries the JSON type   *)
(* json.dump renders it with: a Python int or float is a number, a str is  *)
(* a string.  Formatted strings are sequences of characters.               *)
(***************************************************************************)
default_radar_config ==
    [profileCfg |->
        [profileId |-> 0, pfVcoSelect |-> 2, startFreqConst |-> 1434000000,
         freqSlopeConst |-> 518, idleTimeConst |-> 700, adcStartTimeConst |-> 435,
         rampEndTime |-> 6897, txOutPowerBackoffCode |-> 0, txPhaseShifter |-> 0,
         txStartTime |-> 0, numAdcSamples |-> 512, digOutSampleRate |-> 8000,
         hpfCornerFreq1 |-> 0, hpfCornerFreq2 |-> 0, rxGain |-> 48],
     frameCfg |->
        [chirpStartIdx |-> 0, chirpEndIdx |-> 11, numFrames |-> 0, numLoops |-> 10,
         numAdcSamples |-> 512, frameTriggerDelay |-> 0, framePeriodicity |-> 20000000],
     channelCfg |-> [rxChannelEn |-> 15, txChannelEn |-> 7, cascading |-> 2],
     adcOutCfg |-> [fmt |-> [b2AdcBits |-> 2, b2AdcOutFmt |-> 1, b8FullScaleReducFctr |-> 0]],
     dataFmtCfg |-> [iqSwapSel |-> 0, chInterleave |-> 0, rxChannelEn |-> 15,
                     adcFmt |-> 1, adcBits |-> 2],
     ldoCfg |-> [ldoBypassEnable |-> 3, ioSupplyIndicator |-> 0, supplyMonIrDrop |-> 0],
     lpmCfg |-> [lpAdcMode |-> 0],
     miscCfg |-> [miscCtl |-> 1],
     datapathCfg |-> [intfSel |-> 0, transferFmtPkt0 |-> 1, transferFmtPkt1 |-> 0],
     datapathClkCfg |-> [laneClkCfg |-> 1, dataRate |-> 1],
     hsClkCfg |-> [hsiClk |-> 9],
     csi2LaneCfg |-> [lineStartEndDis |-> 0, lanePosPolSel |-> 218145]]

\* num_devices
NumDevices == 4

\* range(12)
NumChirps == 12

JsonNumber(n) == [json |-> "number", val |-> n]

JsonString(s) == [json |-> "string", val |-> s]

\* a dictionary of ints, as json.dump renders it
JsonNumbers(d) == [f \in DOMAIN d |-> JsonNumber(d[f])]

HexDigit(n) ==
    <<"0", "1", "2", "3", "4", "5", "6", "7", "8", "9", "A", "B", "C", "D", "E", "F">>[n + 1]

RECURSIVE HexDigits(_)
HexDigits(n) ==
    IF n < 16 THEN <<HexDigit(n)>> ELSE HexDigits(n \div 16) \o <<HexDigit(n % 16)>>

\* f"0x{n:X}" for n >= 0
Hex(n) == <<"0", "x">> \o HexDigits(n)

\* a table in which device 1 drives chirp 9, which device 0 drives, and
\* nobody drives chirp 8
OverlappingTxTable(devId) ==
    CASE devId = 0 -> {11, 10, 9}
      [] devId = 1 -> {9, 7, 6}
      [] devId = 2 -> {5, 4, 3}
      [] devId = 3 -> {2, 1, 0}
      [] OTHER     -> {}

\* chirp_tx_table.get(devId, set())
chirp_tx_table(devId) ==
    CASE devId = 0 -> {11, 10, 9}
      [] devId = 1 -> {8, 7, 6}
      [] devId = 2 -> {5, 4, 3}
      [] devId = 3 -> {2, 1, 0}
      [] OTHER     -> {}

\* sorted(list(S)): the order without reverse=True
SortedForward(S) ==
    CHOOSE q \in [1..Cardinality(S) -> S] :
        \A i, j \in 1..Cardinality(S) : i < j => q[i] < q[j]

\* sorted(list(S), reverse=True)
SortedReverse(S) ==
    CHOOSE q \in [1..Cardinality(S) -> S] :
        \A i, j \in 1..Cardinality(S) : i < j => q[i] > q[j]

\* tx_map[chirpIdx]: the index enumerate gives chirpIdx in the sorted list
tx_map(devId, chirpIdx) ==
    CHOOSE idx \in 0..(Cardinality(chirp_tx_table(devId)) - 1) :
        SortedReverse(chirp_tx_table(devId))[idx + 1] = chirpIdx

\* lines 82-86
tx_enable(devId, chirpIdx) ==
    IF chirpIdx \in chirp_tx_table(devId) THEN 2 ^ tx_map(devId, chirpIdx) ELSE 0

\* lines 88-95
chirps(devId) ==
    [c \in 1..NumChirps |->
        [rlChirpCfg_t |->
            [chirpStartIdx |-> JsonNumber(c - 1), chirpEndIdx |-> JsonNumber(c - 1),
             profileId |-> JsonNumber(0),
             startFreqVar_MHz |-> JsonNumber(FZero),
             freqSlopeVar_KHz_usec |-> JsonNumber(FZero),
             idleTimeVar_usec |-> JsonNumber(FZero),
             adcStartTimeVar_usec |-> JsonNumber(FZero),
             txEnable |-> JsonString(Hex(tx_enable(devId, c - 1)))]]]

\* lines 54-60: the physical values of the profile and frame fields
PhysicalUnits(cfg) ==
    [startFreq_GHz         |-> ToPhysical("startFreqConst", cfg.profileCfg.startFreqConst),
     freqSlope_MHz_usec    |-> ToPhysical("freqSlopeConst", cfg.profileCfg.freqSlopeConst),
     idleTime_usec         |-> ToPhysical("idleTimeConst", cfg.profileCfg.idleTimeConst),
     adcStartTime_usec     |-> ToPhysical("adcStartTimeConst", cfg.profileCfg.adcStartTimeConst),
     rampEndTime_usec      |-> ToPhysical("rampEndTime", cfg.profileCfg.rampEndTime),
     txStartTime_usec      |-> ToPhysical("txStartTime", cfg.profileCfg.txStartTime),
     framePeriodicity_msec |-> ToPhysical("framePeriodicity", cfg.frameCfg.framePeriodicity)]

\* lines 97-147
device_config(cfg, devId, ph) ==
    [mmWaveDeviceId |-> JsonNumber(devId),
     rfConfig |->
        [rlChanCfg_t |->
            [rxChannelEn |-> JsonString(Hex(cfg.channelCfg.rxChannelEn)),
             txChannelEn |-> JsonString(Hex(cfg.channelCfg.txChannelEn)),
             cascading |-> JsonNumber(IF devId = 0 THEN 1 ELSE 2),
             cascadingPinoutCfg |-> JsonString(<<"0", "x", "0">>)],
         rlAdcOutCfg_t |-> [fmt |-> JsonNumbers(cfg.adcOutCfg.fmt)],
         rlLowPowerModeCfg_t |-> JsonNumbers(cfg.lpmCfg),
         rlProfiles |-> <<
            [rlProfileCfg_t |->
                [profileId |-> JsonNumber(cfg.profileCfg.profileId),
                 pfVcoSelect |-> JsonString(Hex(cfg.profileCfg.pfVcoSelect)),
                 startFreqConst_GHz |-> JsonNumber(ph.startFreq_GHz),
                 idleTimeConst_usec |-> JsonNumber(ph.idleTime_usec),
                 adcStartTimeConst_usec |-> JsonNumber(ph.adcStartTime_usec),
                 rampEndTime_usec |-> JsonNumber(ph.rampEndTime_usec),
                 txOutPowerBackoffCode |->
                     JsonString(Hex(cfg.profileCfg.txOutPowerBackoffCode)),
                 txPhaseShifter |-> JsonString(Hex(cfg.profileCfg.txPhaseShifter)),
                 freqSlopeConst_MHz_usec |-> JsonNumber(ph.freqSlope_MHz_usec),
                 txStartTime_usec |-> JsonNumber(ph.txStartTime_usec),
                 numAdcSamples |-> JsonNumber(cfg.profileCfg.numAdcSamples),
                 digOutSampleRate |-> JsonNumber(FromInt(cfg.profileCfg.digOutSampleRate)),
                 hpfCornerFreq1 |-> JsonNumber(cfg.profileCfg.hpfCornerFreq1),
                 hpfCornerFreq2 |-> JsonNumber(cfg.profileCfg.hpfCornerFreq2),
                 rxGain_dB |-> JsonString(Hex(cfg.profileCfg.rxGain))]] >>,
         rlChirps |-> chirps(devId),
         rlFrameCfg_t |->
            [chirpEndIdx |-> JsonNumber(cfg.frameCfg.chirpEndIdx),
             chirpStartIdx |-> JsonNumber(cfg.frameCfg.chirpStartIdx),
             numLoops |-> JsonNumber(cfg.frameCfg.numLoops),
             numFrames |-> JsonNumber(cfg.frameCfg.numFrames),
             framePeriodicity_msec |-> JsonNumber(ph.framePeriodicity_msec),
             triggerSelect |-> JsonNumber(IF devId = 0 THEN 1 ELSE 2),
             frameTriggerDelay |-> JsonNumber(FZero)]],
     rawDataCaptureConfig |->
        [rlDevDataFmtCfg_t |->
            [iqSwapSel |-> JsonNumber(cfg.dataFmtCfg.iqSwapSel),
             chInterleave |-> JsonNumber(cfg.dataFmtCfg.chInterleave)],
         rlDevDataPathCfg_t |->
            [intfSel |-> JsonNumber(cfg.datapathCfg.intfSel),
             transferFmtPkt0 |-> JsonString(Hex(cfg.datapathCfg.transferFmtPkt0)),
             transferFmtPkt1 |-> JsonString(Hex(cfg.datapathCfg.transferFmtPkt1))]]]

\* lines 50-148: the document export_config_to_json builds from cfg; the
\* physical values are computed once, before the loop over the devices
JsonOutput(cfg) ==
    The({[configGenerator |->
             [createdBy |-> JsonString("mmwave-cli-python"),
              createdOn |-> JsonString("now"),
              isConfigIntermediate |-> JsonNumber(1)],
          mmWaveDevices |-> [d \in 1..NumDevices |-> device_config(cfg, d - 1, ph)]] :
            ph \in {PhysicalUnits(cfg)}})

\* the states of a file
Absent == [kind |-> "absent", doc |-> <<>>]

Previous == [kind |-> "previous", doc |-> <<>>]

Truncated == [kind |-> "empty", doc |-> <<>>]

Partial == [kind |-> "partial", doc |-> <<>>]

Written(doc) == [kind |-> "descriptor", doc |-> doc]

NoDocument == <<>>

\* an export that converts in place: it stores a physical value back into
\* the dictionary it was given
ExportBuildInPlace ==
    /\ exportPc = "call"
    /\ pc \in {"idle", "export"}
    /\ exportPc' = "open"
    /\ config' = [config EXCEPT !.profileCfg.idleTimeConst = 0]
    /\ UNCHANGED <<filename, fs>>
    /\ UNCHANGED <<convVars, parseVars, mainVars>>
    /\ json_output' = JsonOutput(config)

\* lines 48-148: the document is built before the file is touched
ExportBuild ==
    /\ exportPc = "call"
    /\ pc \in {"idle", "export"}
    /\ exportPc' = "open"
    /\ UNCHANGED <<config, filename, fs>>
    /\ UNCHANGED <<convVars, parseVars, mainVars>>
    /\ json_output' = JsonOutput(config)

\* line 151: open(filename, 'w') empties the file, or raises and leaves it
ExportOpen ==
    /\ exportPc = "open"
    /\ pc \in {"idle", "export"}
    /\ \E opened \in BOOLEAN :
          IF opened
          THEN fs' = [fs EXCEPT ![filename] = Truncated] /\ exportPc' = "dump"
          ELSE fs' = fs /\ exportPc' = "failed"
    /\ UNCHANGED <<config, filename, json_output>>
    /\ UNCHANGED <<convVars, parseVars, mainVars>>

\* lines 152-155: json.dump and the close of the file; a write that raises
\* (disk full) leaves what had been flushed, and the IOError is caught
ExportDump ==
    /\ exportPc = "dump"
    /\ pc \in {"idle", "export"}
    /\ \E left \in {Written(json_output), Partial, Truncated} :
          /\ fs' = [fs EXCEPT ![filename] = left]
          /\ exportPc' = IF left.kind = "descriptor" THEN "saved" ELSE "failed"
    /\ UNCHANGED <<config, filename, json_output>>
    /\ UNCHANGED <<convVars, parseVars, mainVars>>

\* convert_physical_to_lsb(params) for the one key params holds
ConvertPhysicalToLsb ==
    /\ convPc = "params"
    /\ p' = (FieldOf(convKey) :> ToLsb(convKey, convArg))
    /\ convPc' = "lsb"
    /\ UNCHANGED <<convKey, convArg, physical>>
    /\ UNCHANGED <<parseVars, exportVars, mainVars>>

\* the inverse formula export_config_to_json applies to the field of p
ExportInverse ==
    /\ convPc = "lsb"
    /\ physical' = ToPhysical(FieldOf(convKey), p[FieldOf(convKey)])
    /\ convPc' = "physical"
    /\ UNCHANGED <<convKey, convArg, p>>
    /\ UNCHANGED <<parseVars, exportVars, mainVars>>

(***************************************************************************)
(* main, run_capture and the transfer threads.                             *)
(***************************************************************************)
\* the capture cycles the model lets main start
MaxCycles == 2

\* the status codes a call of mmwcas returns: zero, and one that is not
Statuses == {0, -1}

\* check_status: whether it calls sys.exit(1)
check_status(status) == status # 0

\* the statements inside the try block of main
TryPcs == {"arm", "start_frame", "stop_frame", "dearm", "export", "sleep"}

NoThread == [at |-> "none", failed |-> FALSE]

InFlight(th) == th.at \in {"makedirs", "scp_dir", "scp_json"}

\* the end of the process ends its daemon threads
KillDaemons(ths) ==
    [t \in DOMAIN ths |-> IF InFlight(ths[t]) THEN [ths[t] EXCEPT !.at = "killed"]
                          ELSE ths[t]]

\* a main thread that joins every thread it has started
AwaitedJoin(ths) == {t \in DOMAIN ths : ths[t].at # "none"}

\* The threads the main thread waits for before it goes on: none.
\* start_async_transfer starts the thread and returns, nothing joins it, and
\* it is a daemon thread, so the exit does not wait for it either.
Awaited(ths) == {}

\* an export without the except clause: a failed write raises to the caller
ExportRaisesOnFailure(epc) == epc = "failed"

\* Whether export_config_to_json raises to run_capture when it ends at epc:
\* never, the IOError of a failed write is caught in it.
ExportRaises(epc) == FALSE

\* mmwcas.mmw_set_config(default_radar_config), outside the try block:
\* sys.exit(1) ends the process at once
MmwSetConfig ==
    /\ pc = "set_config"
    /\ \E status \in Statuses :
          IF check_status(status)
          THEN /\ pc' = "exited" /\ exitStatus' = "error" /\ hwFailed' = TRUE
               /\ UNCHANGED configured
          ELSE /\ pc' = "init" /\ configured' = TRUE
               /\ UNCHANGED <<exitStatus, hwFailed>>
    /\ UNCHANGED initialised
    /\ UNCHANGED <<mode, no_transfer, cycle, armed, frameStarted, stopAttempted,
                   dearmAttempted, interrupted, threads>>
    /\ UNCHANGED <<convVars, parseVars, exportVars>>

\* mmwcas.mmw_init() and the sleep after it
MmwInit ==
    /\ pc = "init"
    /\ \E status \in Statuses :
          IF check_status(status)
          THEN /\ pc' = "exited" /\ exitStatus' = "error" /\ hwFailed' = TRUE
               /\ UNCHANGED initialised
          ELSE /\ pc' = "arm" /\ initialised' = TRUE
               /\ UNCHANGED <<exitStatus, hwFailed>>
    /\ UNCHANGED configured
    /\ UNCHANGED <<mode, no_transfer, cycle, armed, frameStarted, stopAttempted,
                   dearmAttempted, interrupted, threads>>
    /\ UNCHANGED <<convVars, parseVars, exportVars>>

\* run_capture is called: mmw_arming_tda.  A SystemExit raised inside the
\* try block passes the except clause and runs the finally block.
ArmingTda ==
    /\ pc = "arm"
    /\ cycle < MaxCycles
    /\ cycle' = cycle + 1
    /\ stopAttempted' = FALSE
    /\ dearmAttempted' = FALSE
    /\ \E status \in Statuses :
          IF check_status(status)
          THEN /\ pc' = "finally" /\ exitStatus' = "error" /\ hwFailed' = TRUE
               /\ UNCHANGED armed
          ELSE /\ pc' = "start_frame" /\ armed' = TRUE
               /\ UNCHANGED <<exitStatus, hwFailed>>
    /\ UNCHANGED <<configured, initialised>>
    /\ UNCHANGED <<mode, no_transfer, frameStarted, interrupted, threads>>
    /\ UNCHANGED <<convVars, parseVars, exportVars>>

\* mmw_start_frame
StartFrame ==
    /\ pc = "start_frame"
    /\ \E status \in Statuses :
          IF check_status(status)
          THEN /\ pc' = "finally" /\ exitStatus' = "error" /\ hwFailed' = TRUE
               /\ UNCHANGED frameStarted
          ELSE /\ pc' = "stop_frame" /\ frameStarted' = TRUE
               /\ UNCHANGED <<exitStatus, hwFailed>>
    /\ UNCHANGED <<configured, initialised>>
    /\ UNCHANGED <<mode, no_transfer, cycle, armed, stopAttempted, dearmAttempted,
                   interrupted, threads>>
    /\ UNCHANGED <<convVars, parseVars, exportVars>>

\* the sleep of the capture, then mmw_stop_frame
StopFrame ==
    /\ pc = "stop_frame"
    /\ stopAttempted' = TRUE
    /\ \E status \in Statuses :
          IF check_status(status)
          THEN /\ pc' = "finally" /\ exitStatus' = "error" /\ hwFailed' = TRUE
               /\ UNCHANGED frameStarted
          ELSE /\ pc' = "dearm" /\ frameStarted' = FALSE
               /\ UNCHANGED <<exitStatus, hwFailed>>
    /\ UNCHANGED <<configured, initialised>>
    /\ UNCHANGED <<mode, no_transfer, cycle, armed, dearmAttempted, interrupted, threads>>
    /\ UNCHANGED <<convVars, parseVars, exportVars>>

\* mmw_dearming_tda, then the call of export_config_to_json with the file
\* name of this cycle
DearmingTda ==
    /\ pc = "dearm"
    /\ dearmAttempted' = TRUE
    /\ \E status \in Statuses :
          IF check_status(status)
          THEN /\ pc' = "finally" /\ exitStatus' = "error" /\ hwFailed' = TRUE
               /\ UNCHANGED <<armed, filename, exportPc>>
          ELSE /\ pc' = "export" /\ armed' = FALSE
               /\ filename' = cycle /\ exportPc' = "call"
               /\ UNCHANGED <<exitStatus, hwFailed>>
    /\ UNCHANGED <<configured, initialised>>
    /\ UNCHANGED <<mode, no_transfer, cycle, frameStarted, stopAttempted,
                   interrupted, threads>>
    /\ UNCHANGED <<config, json_output, fs>>
    /\ UNCHANGED <<convVars, parseVars>>

\* a main that hands the cycle to the transfer before the export has
\* returned
StartAsyncTransferEarly ==
    /\ pc = "export"
    /\ exportPc \in {"call", "open", "dump", "saved", "failed"}
    /\ ~no_transfer
    /\ exportPc' = "idle"
    /\ pc' = "sleep"
    /\ threads' = [threads EXCEPT ![cycle] = [at |-> "makedirs", failed |-> FALSE]]
    /\ json_output' = NoDocument
    /\ UNCHANGED <<mode, no_transfer, cycle, configured, initialised, armed,
                   frameStarted, stopAttempted, dearmAttempted, hwFailed,
                   interrupted, exitStatus>>
    /\ UNCHANGED <<config, filename, fs>>
    /\ UNCHANGED <<convVars, parseVars>>

\* export_config_to_json has returned to run_capture (its local json_output
\* is gone), run_capture to main:
\* start_async_transfer starts the thread of this cycle and returns
StartAsyncTransfer ==
    /\ pc = "export"
    /\ exportPc \in {"saved", "failed"}
    /\ ~no_transfer
    /\ exportPc' = "idle"
    /\ IF ExportRaises(exportPc)
       THEN pc' = "finally" /\ exitStatus' = "error" /\ UNCHANGED threads
       ELSE /\ pc' = "sleep"
            /\ threads' = [threads EXCEPT ![cycle] = [at |-> "makedirs", failed |-> FALSE]]
            /\ UNCHANGED exitStatus
    /\ UNCHANGED <<configured, initialised>>
    /\ UNCHANGED <<mode, no_transfer, cycle, armed, frameStarted, stopAttempted,
                   dearmAttempted, hwFailed, interrupted>>
    /\ json_output' = NoDocument
    /\ UNCHANGED <<config, filename, fs>>
    /\ UNCHANGED <<convVars, parseVars>>

\* the same return with --no-transfer
SkipTransfer ==
    /\ pc = "export"
    /\ exportPc \in {"saved", "failed"}
    /\ no_transfer
    /\ exportPc' = "idle"
    /\ IF ExportRaises(exportPc)
       THEN pc' = "finally" /\ exitStatus' = "error"
       ELSE pc' = "sleep" /\ UNCHANGED exitStatus
    /\ UNCHANGED <<configured, initialised>>
    /\ UNCHANGED <<mode, no_transfer, cycle, armed, frameStarted, stopAttempted,
                   dearmAttempted, hwFailed, interrupted, threads>>
    /\ json_output' = NoDocument
    /\ UNCHANGED <<config, filename, fs>>
    /\ UNCHANGED <<convVars, parseVars>>

\* the sleep that ends the cycle: single mode leaves the try block,
\* continuous mode goes round the loop
Sleep ==
    /\ pc = "sleep"
    /\ \A t \in Awaited(threads) : ~InFlight(threads[t])
    /\ IF mode = "single"
       THEN pc' = "finally" /\ exitStatus' = "ok"
       ELSE pc' = "arm" /\ UNCHANGED exitStatus
    /\ UNCHANGED <<configured, initialised>>
    /\ UNCHANGED <<mode, no_transfer, cycle, armed, frameStarted, stopAttempted,
                   dearmAttempted, hwFailed, interrupted, threads>>
    /\ UNCHANGED <<convVars, parseVars, exportVars>>

\* the finally block prints and the process ends: nothing is called on the
\* hardware
Finally ==
    /\ pc = "finally"
    /\ \A t \in Awaited(threads) : ~InFlight(threads[t])
    /\ pc' = "exited"
    /\ threads' = KillDaemons(threads)
    /\ UNCHANGED <<configured, initialised>>
    /\ UNCHANGED <<mode, no_transfer, cycle, armed, frameStarted, stopAttempted,
                   dearmAttempted, hwFailed, interrupted, exitStatus>>
    /\ UNCHANGED <<convVars, parseVars, exportVars>>

\* Ctrl+C: caught inside the try block, a traceback before it
KeyboardInterrupt ==
    /\ pc \in TryPcs \cup {"set_config", "init"}
    /\ interrupted' = TRUE
    /\ IF pc \in TryPcs
       THEN pc' = "finally" /\ exitStatus' = "ok"
       ELSE pc' = "exited" /\ exitStatus' = "error"
    /\ UNCHANGED <<configured, initialised>>
    /\ UNCHANGED <<mode, no_transfer, cycle, armed, frameStarted, stopAttempted,
                   dearmAttempted, hwFailed, threads>>
    /\ UNCHANGED <<convVars, parseVars, exportVars>>

\* transfer_data_thread: os.makedirs is outside the try blocks, an error
\* of it ends the thread
ThreadMakedirs(t) ==
    /\ pc # "exited"
    /\ threads[t].at = "makedirs"
    /\ \E made \in BOOLEAN :
          threads' = [threads EXCEPT ![t] =
                         IF made THEN [at |-> "scp_dir", failed |-> FALSE]
                         ELSE [at |-> "crashed", failed |-> TRUE]]
    /\ UNCHANGED <<configured, initialised>>
    /\ UNCHANGED <<pc, mode, no_transfer, cycle, armed, frameStarted, stopAttempted,
                   dearmAttempted, hwFailed, interrupted, exitStatus>>
    /\ UNCHANGED <<convVars, parseVars, exportVars>>

\* scp of the capture directory: an exception is caught and printed
ThreadScpDir(t) ==
    /\ pc # "exited"
    /\ threads[t].at = "scp_dir"
    /\ \E copied \in BOOLEAN :
          threads' = [threads EXCEPT ![t] = [at |-> "scp_json", failed |-> ~copied]]
    /\ UNCHANGED <<configured, initialised>>
    /\ UNCHANGED <<pc, mode, no_transfer, cycle, armed, frameStarted, stopAttempted,
                   dearmAttempted, hwFailed, interrupted, exitStatus>>
    /\ UNCHANGED <<convVars, parseVars, exportVars>>

\* scp of the descriptor file: an exception is caught and printed
ThreadScpJson(t) ==
    /\ pc # "exited"
    /\ threads[t].at = "scp_json"
    /\ \E copied \in BOOLEAN :
          threads' = [threads EXCEPT ![t] =
                         [at |-> "finished", failed |-> threads[t].failed \/ ~copied]]
    /\ UNCHANGED <<configured, initialised>>
    /\ UNCHANGED <<pc, mode, no_transfer, cycle, armed, frameStarted, stopAttempted,
                   dearmAttempted, hwFailed, interrupted, exitStatus>>
    /\ UNCHANGED <<convVars, parseVars, exportVars>>

(***************************************************************************)
(* The specifications.  Each starts one part of the program and leaves the *)
(* variables of the other parts at rest.                                   *)
(***************************************************************************)
\* the physical values drawn are 0.00, 0.01, ... up to this many hundredths
MaxCenti == 120

\* the longest line of the one-line files
MaxLineLen == 5

\* the most lines of a file made of the lines of LinePool
MaxLines == 3

FileNames == 1..MaxCycles

ConvIdle ==
    /\ convKey = "none" /\ convArg = FZero /\ p = <<>>
    /\ physical = FZero /\ convPc = "idle"

ParseIdle == lines = <<>> /\ lineNo = 0 /\ params = <<>> /\ parsePc = "idle"

ExportIdle ==
    /\ config = default_radar_config /\ filename = 0 /\ json_output = NoDocument
    /\ fs = [f \in FileNames |-> Absent] /\ exportPc = "idle"

MainIdle ==
    /\ pc = "idle" /\ mode = "single" /\ no_transfer = TRUE /\ cycle = 0
    /\ configured = FALSE /\ initialised = FALSE
    /\ armed = FALSE /\ frameStarted = FALSE /\ stopAttempted = FALSE
    /\ dearmAttempted = FALSE /\ hwFailed = FALSE /\ interrupted = FALSE
    /\ exitStatus = "running" /\ threads = [t \in FileNames |-> NoThread]

\* main is entered with the parsed arguments; the file of a cycle is named
\* after the time the cycle starts at and does not exist before
Init ==
    /\ pc = "set_config"
    /\ mode \in {"single", "continuous"}
    /\ no_transfer \in BOOLEAN
    /\ cycle = 0
    /\ configured = FALSE /\ initialised = FALSE
    /\ armed = FALSE /\ frameStarted = FALSE /\ stopAttempted = FALSE
    /\ dearmAttempted = FALSE /\ hwFailed = FALSE /\ interrupted = FALSE
    /\ exitStatus = "running"
    /\ threads = [t \in FileNames |-> NoThread]
    /\ ExportIdle
    /\ ConvIdle
    /\ ParseIdle

\* the statements of the main thread
MainNext ==
    \/ MmwSetConfig
    \/ MmwInit
    \/ ArmingTda
    \/ StartFrame
    \/ StopFrame
    \/ DearmingTda
    \/ ExportBuild
    \/ ExportOpen
    \/ ExportDump
    \/ StartAsyncTransfer
    \/ SkipTransfer
    \/ Sleep
    \/ Finally

ThreadNext ==
    \E t \in FileNames : ThreadMakedirs(t) \/ ThreadScpDir(t) \/ ThreadScpJson(t)

Next == MainNext \/ KeyboardInterrupt \/ ThreadNext

Spec == Init /\ [][Next]_vars

\* The main thread runs on: every call of the hardware library returns and
\* every sleep ends.  Nothing is assumed of the transfer threads, of which an
\* scp may hang, nor of the interrupt.
SpecLive == Spec /\ WF_vars(MainNext)

\* configurations that differ from the default in the transmit channels and
\* in the receiver gain
Configs ==
    {[default_radar_config EXCEPT !.channelCfg.txChannelEn = tx, !.profileCfg.rxGain = g] :
        tx \in 0..7, g \in {30, 48}}

\* one call of export_config_to_json, to a path where a file exists already
InitExport ==
    /\ config \in Configs
    /\ filename \in FileNames
    /\ fs \in {f \in [FileNames -> {Absent, Previous}] : f[filename] = Previous}
    /\ json_output = NoDocument
    /\ exportPc = "call"
    /\ MainIdle
    /\ ConvIdle
    /\ ParseIdle

NextExport == ExportBuild \/ ExportOpen \/ ExportDump

SpecExport == InitExport /\ [][NextExport]_vars

\* lines that bind k or kk, that match and do not parse, and that do not match
LinePool ==
    { <<"k", "=", "7">>, <<"k", "=", "7", "7">>, <<"k", "k", "=", "7">>,
      <<"k", "=", "k">>, <<"7", "=", "7">>, <<"k", "=", "7", ",">> }

\* one call of parse_lua_assignments on a file
InitParse ==
    /\ lines \in {<<l>> : l \in UNION {[1..n -> Alphabet] : n \in 0..MaxLineLen}}
                 \cup UNION {[1..n -> LinePool] : n \in 2..MaxLines}
    /\ lineNo = 0
    /\ params = <<>>
    /\ parsePc = "loop"
    /\ ConvIdle
    /\ ExportIdle
    /\ MainIdle

NextParse == ParseLine \/ ParseReturn

SpecParse == InitParse /\ [][NextParse]_vars

\* one conversion of a physical value to LSB and back
InitConv ==
    /\ convKey \in ConvKeys
    /\ convArg \in {FromDecimal(1, c, 2) : c \in 0..MaxCenti}
    /\ p = <<>>
    /\ physical = FZero
    /\ convPc = "params"
    /\ ParseIdle
    /\ ExportIdle
    /\ MainIdle

NextConv == ConvertPhysicalToLsb \/ ExportInverse

SpecConv == InitConv /\ [][NextConv]_vars

(***************************************************************************)
(* The properties.                                                         *)
(***************************************************************************)
\* export_config_to_json has built its document
Built == exportPc \in {"open", "dump", "saved", "failed"}

\* the txEnable string of chirp c in the descriptor of device d
TxEnableOf(d, c) ==
    json_output.mmWaveDevices[d + 1].rfConfig.rlChirps[c + 1].rlChirpCfg_t.txEnable.val

ZeroMask == <<"0", "x", "0">>

\* C1: in the document built for the 4 devices, every chirp 0..11 has exactly
\* one device with a non-zero txEnable, the non-zero values are the single
\* bits 0, 1 and 2, and every device has exactly 3 chirps with a non-zero
\* txEnable.
OneDevicePerChirp ==
    Built =>
        /\ Len(json_output.mmWaveDevices) = 4
        /\ \A d \in 0..3 : Len(json_output.mmWaveDevices[d + 1].rfConfig.rlChirps) = 12
        /\ \A c \in 0..11 : Cardinality({d \in 0..3 : TxEnableOf(d, c) # ZeroMask}) = 1
        /\ \A d \in 0..3, c \in 0..11 :
              TxEnableOf(d, c) \in {ZeroMask, <<"0", "x", "1">>, <<"0", "x", "2">>,
                                    <<"0", "x", "4">>}
        /\ \A d \in 0..3 : Cardinality({c \in 0..11 : TxEnableOf(d, c) # ZeroMask}) = 3

\* a built document in which device 0 has bit 0 set for chirp 11 and the
\* other devices have nothing set for it
OneDevicePerChirpWitness ==
    /\ Built
    /\ TxEnableOf(0, 11) = <<"0", "x", "1">>
    /\ \A d \in 1..3 : TxEnableOf(d, 11) = ZeroMask

\* the hexadecimal digit of the mask of chirp c (column c + 1) in the
\* descriptor of device d (row d + 1): device 0 drives chirps 9..11, device 1
\* chirps 6..8, device 2 chirps 3..5, device 3 chirps 0..2, the highest chirp
\* of a device on bit 0
FixedMaskDigit ==
    << <<"0", "0", "0", "0", "0", "0", "0", "0", "0", "4", "2", "1">>,
       <<"0", "0", "0", "0", "0", "0", "4", "2", "1", "0", "0", "0">>,
       <<"0", "0", "0", "4", "2", "1", "0", "0", "0", "0", "0", "0">>,
       <<"4", "2", "1", "0", "0", "0", "0", "0", "0", "0", "0", "0">> >>

\* C2: the txEnable of chirp c of device d is 0 outside the fixed set of
\* chirps of d and 1 << (rank of c in that set, descending) inside it,
\* whatever the configuration that is exported (txChannelEn included).
TxEnableIsFixedRank ==
    Built => \A d \in 0..3, c \in 0..11 :
                TxEnableOf(d, c) = <<"0", "x", FixedMaskDigit[d + 1][c + 1]>>

\* a document built from a configuration with no transmit channel enabled,
\* in which device 3 still has bit 2 set for chirp 0
TxEnableIsFixedRankWitness ==
    /\ Built
    /\ config.channelCfg.txChannelEn = 0
    /\ TxEnableOf(3, 0) = <<"0", "x", "4">>

\* C3: a physical value converted to LSB by convert_physical_to_lsb and back
\* by the inverse formula of export_config_to_json differs from the value by
\* less than the physical value of one LSB.
RoundTripWithinOneLsb ==
    convPc = "physical" =>
        FDiffLess(convArg, physical, ToPhysical(FieldOf(convKey), 1))

\* the text the value of a matched line is taken from by the description:
\* everything after '=' up to the comment marker or the end of the line,
\* without the surrounding whitespace and without one trailing comma
WholeValueText(line) ==
    LET t == Strip(BeforeComment(SubSeq(line, AssignMatch(line).eq + 1, Len(line))))
    IN  IF t # <<>> /\ t[Len(t)] = "," THEN Strip(SubSeq(t, 1, Len(t) - 1)) ELSE t

\* C4: for a line the assignment pattern matches, the value extracted is the
\* literal that everything after '=' up to '--' or the end of the line
\* denotes (whitespace and one trailing comma stripped), and nothing is
\* extracted when that text is no literal; stated for the files of one line.
ExtractsWholeValue ==
    (parsePc = "returned" /\ Len(lines) = 1 /\ AssignMatch(lines[1]).matched) =>
        LET v == LiteralEval(WholeValueText(lines[1]))
        IN  params = IF v.ok THEN AssignMatch(lines[1]).group1 :> v ELSE <<>>

\* the bindings of a sequence of lines, the last line that binds a key giving
\* its value
LastBindings(ls) ==
    LET bound   == {i \in 1..Len(ls) : LineResult(ls[i]).bound}
        last(k) == SetMax({i \in bound : LineResult(ls[i]).key = k})
    IN  [k \in {LineResult(ls[i]).key : i \in bound} |-> LineResult(ls[last(k)]).val]

\* C5: one pass from the top: after any number of lines the mapping holds,
\* for each key, the value of the last of these lines that binds it (a line
\* that does not match or does not parse changes nothing), and the function
\* returns only when every line has been consumed.
LastAssignmentWins ==
    /\ parsePc \in {"loop", "returned"} =>
          /\ DOMAIN params = DOMAIN LastBindings(SubSeq(lines, 1, lineNo))
          /\ \A k \in DOMAIN params :
                params[k] = LastBindings(SubSeq(lines, 1, lineNo))[k]
    /\ parsePc = "returned" => lineNo = Len(lines)

\* k = 7, then a line whose value does not parse, then k = 77: the function
\* has returned k bound to 77
LastAssignmentWinsWitness ==
    /\ parsePc = "returned"
    /\ lines = << <<"k", "=", "7">>, <<"k", "=", "k">>, <<"k", "=", "7", "7">> >>
    /\ params[<<"k">>].elems = <<77>>

\* the scalar records of a device descriptor
LeafRecords(dev) ==
    << dev.rfConfig.rlChanCfg_t, dev.rfConfig.rlAdcOutCfg_t.fmt,
       dev.rfConfig.rlLowPowerModeCfg_t, dev.rfConfig.rlProfiles[1].rlProfileCfg_t,
       dev.rfConfig.rlFrameCfg_t, dev.rawDataCaptureConfig.rlDevDataFmtCfg_t,
       dev.rawDataCaptureConfig.rlDevDataPathCfg_t >>
    \o [c \in 1..Len(dev.rfConfig.rlChirps) |-> dev.rfConfig.rlChirps[c].rlChirpCfg_t]

\* the bit-field values: the channel enables, the TX enable and the mode codes
BitFields ==
    {"rxChannelEn", "txChannelEn", "txEnable", "cascadingPinoutCfg", "pfVcoSelect",
     "txOutPowerBackoffCode", "txPhaseShifter", "transferFmtPkt0", "transferFmtPkt1"}

IsUpperHex(s) ==
    /\ Len(s) >= 3 /\ s[1] = "0" /\ s[2] = "x"
    /\ \A i \in 3..Len(s) :
          s[i] \in {"0", "1", "2", "3", "4", "5", "6", "7", "8", "9",
                    "A", "B", "C", "D", "E", "F"}

\* C6: in every device descriptor the bit-field values are strings "0x" and
\* uppercase hexadecimal digits, and every other numeric field is a JSON
\* number.
HexOnlyForBitFields ==
    Built => \A d \in 1..Len(json_output.mmWaveDevices) :
        /\ json_output.mmWaveDevices[d].mmWaveDeviceId.json = "number"
        /\ \A i \in 1..Len(LeafRecords(json_output.mmWaveDevices[d])) :
              LET r == LeafRecords(json_output.mmWaveDevices[d])[i]
              IN  \A f \in DOMAIN r :
                     IF f \in BitFields
                     THEN r[f].json = "string" /\ IsUpperHex(r[f].val)
                     ELSE r[f].json = "number"

\* C7: when the write of the document fails, the file that was at the path
\* before the call still has its previous content.
FailedWriteKeepsFile == exportPc = "failed" => fs[filename] = Previous

\* C8: the process does not exit after a failed hardware call with the
\* capture armed and no disarm attempted, or a frame started and no stop
\* attempted.
ShutdownBeforeExit ==
    (pc = "exited" /\ hwFailed) =>
        /\ armed => dearmAttempted
        /\ frameStarted => stopAttempted

\* C9: in continuous mode a cycle that is under way is always followed by
\* the loop coming round to the call of run_capture again, whatever becomes
\* of the write of the descriptor and of the transfers, unless a hardware
\* call fails or an interrupt arrives.
ContinuousKeepsCycling ==
    (mode = "continuous" /\ pc \in {"start_frame", "stop_frame", "dearm", "export", "sleep"})
        ~> (pc = "arm" \/ hwFailed \/ interrupted)

\* the second cycle is running, no hardware call has failed and no interrupt
\* has arrived, after a first cycle whose descriptor was not written and
\* whose transfer failed
ContinuousKeepsCyclingWitness ==
    /\ mode = "continuous" /\ cycle = 2 /\ ~hwFailed /\ ~interrupted
    /\ fs[1].kind # "descriptor"
    /\ threads[1].failed

\* C10: the main thread is never held up by a transfer: whatever the
\* transfer threads do or fail to do, the hand-over of a finished cycle can
\* return, the sleep that ends the cycle can end, the next cycle can be armed
\* (up to the last cycle the model runs) and the process can exit.
TransferNeverBlocks ==
    /\ (pc = "export" /\ exportPc \in {"saved", "failed"}) =>
           ENABLED (StartAsyncTransfer \/ SkipTransfer)
    /\ pc = "sleep" => ENABLED Sleep
    /\ (pc = "arm" /\ cycle < MaxCycles) => ENABLED ArmingTda
    /\ pc = "finally" => ENABLED Finally

\* the transfers of two cycles are in flight at the same time and the main
\* thread is past the hand-over of the second
TransferNeverBlocksWitness ==
    /\ InFlight(threads[1]) /\ InFlight(threads[2])
    /\ pc \in {"sleep", "arm", "finally"}

\* the descriptor of the configuration main passes to mmw_set_config
ProgrammedDescriptor == JsonOutput(default_radar_config)

\* C11: no step of the program, of the main thread or of a transfer thread,
\* changes a field of the configuration, and every descriptor that has been
\* written, in whatever cycle, is the one derived from the configuration the
\* hardware was programmed with.
ConfigurationNeverModified ==
    /\ [][config' = config]_vars
    /\ [](\A f \in FileNames :
             fs[f].kind = "descriptor" => fs[f].doc = ProgrammedDescriptor)

\* the descriptor of the second cycle has been written from the programmed
\* configuration while the transfer of the first cycle is still running
ConfigurationNeverModifiedWitness ==
    /\ cycle = 2
    /\ fs[2].kind = "descriptor" /\ fs[2].doc = ProgrammedDescriptor
    /\ InFlight(threads[1])

\* C12: the events of a cycle occur in the order arm, start frame, stop
\* frame, disarm, export, transfer start.  A cycle is armed only with the
\* device configured and initialised and, after the first cycle, with the
\* previous cycle stopped and disarmed; the frame is started only on an armed
\* device, stopped only with the frame started, the device disarmed only
\* after the stop succeeded; the export is called only with the device
\* disarmed; the transfer of a cycle is started only when the export of that
\* cycle has returned; and none of these steps follows a failed hardware call.
CaptureStepsInOrder ==
    [][ /\ cycle' # cycle =>
              /\ configured /\ initialised /\ ~hwFailed
              /\ ~armed /\ ~frameStarted /\ exportPc = "idle"
              /\ cycle >= 1 => (mode = "continuous" /\ stopAttempted /\ dearmAttempted)
        /\ StartFrame => (armed /\ ~frameStarted /\ ~hwFailed)
        /\ (stopAttempted' /\ ~stopAttempted) => (armed /\ frameStarted /\ ~hwFailed)
        /\ (dearmAttempted' /\ ~dearmAttempted) =>
              (armed /\ stopAttempted /\ ~frameStarted /\ ~hwFailed)
        /\ (exportPc' = "call" /\ exportPc # "call") =>
              (dearmAttempted' /\ ~armed' /\ ~hwFailed' /\ filename' = cycle)
        /\ \A t \in FileNames :
              (threads[t].at = "none" /\ threads'[t].at # "none") =>
                  (t = cycle /\ filename = t /\ exportPc \in {"saved", "failed"})
      ]_vars

\* the second cycle has gone through all its steps: its transfer has been
\* started after the transfer of the first, with no hardware failure
CaptureStepsInOrderWitness ==
    /\ cycle = 2 /\ ~hwFailed
    /\ threads[1].at # "none" /\ threads[2].at # "none"
    /\ ~armed /\ dearmAttempted

====
